---- MODULE Spec2Model ----
(***************************************************************************)
(* Submission lifecycle of the assessment agent: the server actions of     *)
(* src/lib/actions/submission-actions.ts acting on the submissions table,  *)
(* and the background grading passes of AssessmentEngine                   *)
(* (processAndStoreAssessment / assessSubmissionWithBase) with the hosted  *)
(* LLM call of llm-service (assessSubmission).                             *)
(*                                                                         *)
(* Encoding of JavaScript / SQL values: a field is Absent (undefined),     *)
(* NULL (null) or Val(v).  confidence is counted in tenths (0.1 = 1).      *)
(***************************************************************************)
EXTENDS Integers, Sequences, FiniteSets, Bags, TLC

\* ---------------------------------------------------------------- bounds
MaxPasses == 2        \* grading passes ever scheduled
MaxClock == 1         \* largest clock reading
MaxStoreFaults == 2   \* transient store errors hitting the dispatcher
MaxAllowed == 3       \* length of the allowedRoles array given to requireRole
MaxIds == 7           \* length of the array given to batchAssessSubmissions
MaxCalls == 2         \* calls of createBaseExample, deleteBaseExample and enrollInCourse
                      \* that reach their write
MaxDelta == 2         \* how far from 0 and from a threshold the content lengths go

\* ---------------------------------------------------------------- values
Absent == <<>>
NULL == <<"null">>
Val(v) == <<"val", v>>
IsVal(x) == Len(x) = 2

\* JavaScript truthiness of a string | null | undefined value
Truthy(x) == IsVal(x) /\ x[2] # ""

ConfScale == 10

\* ---------------------------------------------------------------- catalog
\* users table: id -> role
Role ==
  [stu1 |-> "STUDENT", stu2 |-> "STUDENT", adm1 |-> "COURSE_ADMIN",
   adm2 |-> "COURSE_ADMIN", root |-> "SUPER_ADMIN"]

Users == DOMAIN Role

Students == {u \in Users : Role[u] = "STUDENT"}

\* getCurrentUser() returned no session user
NoSession == "anon"

Callers == Users \cup {NoSession}

\* courses table: id -> adminId
CourseAdmin == [c1 |-> "adm1", c2 |-> "adm2"]

\* course_enrollments table
Enrollments == {<<"c1", "stu1">>}

\* questions table (with the presence of its base_examples row)
Question ==
  [q1 |-> [submissionType |-> "TEXT", isActive |-> TRUE, baseExample |-> TRUE, courseId |-> "c1"],
   q2 |-> [submissionType |-> "TEXT", isActive |-> TRUE, baseExample |-> FALSE, courseId |-> "c1"],
   q3 |-> [submissionType |-> "WEBSITE", isActive |-> FALSE, baseExample |-> TRUE, courseId |-> "c1"],
   q4 |-> [submissionType |-> "TEXT", isActive |-> TRUE, baseExample |-> TRUE, courseId |-> "c2"]]

QuestionIds == DOMAIN Question

\* question ids a caller may name, one of them unknown to the store
QuestionArgs == QuestionIds \cup {"q0"}

\* the ids the store gives to submission rows.  No server action and no grading
\* pass reads or writes a row other than the one whose id it is given.
SubIds == {"sub1"}

\* ---------------------------------------------------------------- payloads
ValidUrls == {"https://a"}

Payload(c, f, w, g) == [content |-> c, fileUrl |-> f, websiteUrl |-> w, githubUrl |-> g]

Payloads ==
  { Payload(Absent, Absent, Absent, Absent),
    Payload(Val("a"), Absent, Absent, Absent),
    Payload(Val("b"), Absent, Absent, Absent),
    Payload(Val(""), Absent, Absent, Absent),
    Payload(Absent, Absent, Val("https://a"), Absent),
    Payload(Absent, Absent, Val("not-a-url"), Absent),
    Payload(Absent, Absent, NULL, Absent),
    Payload(Val("a"), Absent, Val("https://a"), Absent) }

\* z.string().optional()
ZString(x) == x = Absent \/ IsVal(x)

\* z.string().url().optional()
ZUrl(x) == x = Absent \/ (IsVal(x) /\ x[2] \in ValidUrls)

\* z.string().url().optional().nullable()
ZUrlNullable(x) == x = NULL \/ ZUrl(x)

createSubmissionSchema(p) ==
  ZString(p.content) /\ ZUrl(p.fileUrl) /\ ZUrl(p.websiteUrl) /\ ZUrl(p.githubUrl)

updateSubmissionSchema(p) ==
  ZString(p.content) /\ ZUrlNullable(p.fileUrl) /\ ZUrlNullable(p.websiteUrl)
    /\ ZUrlNullable(p.githubUrl)

\* data.<field> || null for the field of the question's kind
getSubmissionContent(submissionType, data) ==
  CASE submissionType = "TEXT" -> IF Truthy(data.content) THEN data.content ELSE NULL
    [] submissionType = "WEBSITE" -> IF Truthy(data.websiteUrl) THEN data.websiteUrl ELSE NULL
    [] submissionType = "GITHUB_REPO" -> IF Truthy(data.githubUrl) THEN data.githubUrl ELSE NULL
    [] submissionType = "DOCUMENT" -> IF Truthy(data.fileUrl) THEN data.fileUrl ELSE NULL
    [] OTHER -> NULL

\* ---------------------------------------------------------------- llm-service
AssessmentResult(score, feedback, confidence, comparisonData) ==
  [score |-> score, feedback |-> feedback, confidence |-> confidence,
   comparisonData |-> comparisonData]

NoResult == AssessmentResult(0, "", 0, "")

\* what generateObject may do: throw (network, timeout), or answer with an object
LLMReplies ==
  { [throws |-> TRUE, object |-> NoResult],
    [throws |-> FALSE, object |-> AssessmentResult(100, "matches the example", ConfScale, "llm")],
    [throws |-> FALSE, object |-> AssessmentResult(101, "too high", 5, "llm")],
    [throws |-> FALSE, object |-> AssessmentResult(70, "too sure", ConfScale + 1, "llm")] }

\* mutant: the score has no upper limit
assessmentSchema_NoMaxScore(object) ==
  /\ object.score >= 0
  /\ object.confidence >= 0 /\ object.confidence <= ConfScale

\* score: z.number().min(0).max(100), confidence: z.number().min(0).max(1)
assessmentSchema(object) ==
  /\ object.score >= 0 /\ object.score <= 100
  /\ object.confidence >= 0 /\ object.confidence <= ConfScale

\* the catch of assessSubmission
FallbackAssessment ==
  AssessmentResult(50, "Assessment temporarily unavailable. Please try again later.", 1,
                   "fallback")

\* generateObject validates the answer against the schema and throws if it does not fit
assessSubmission(reply) ==
  IF reply.throws \/ ~assessmentSchema(reply.object) THEN FallbackAssessment
  ELSE reply.object

\* ---------------------------------------------------------------- state
VARIABLES
  submissions,   \* the submissions table: id -> row, for the ids that exist
  created,       \* the ids ever inserted (an id is never given twice)
  passes,        \* the detached processSubmission promises, a bag of
                 \* [sid, pc, result, content]
  now,           \* the clock
  faults,        \* transient store errors so far
  last,          \* the outcome of the latest step: the ActionResult a server action
                 \* returned, or what a step of a grading pass logged
  batch,         \* the call of batchAssessSubmissions under way: its argument, its
                 \* locals and its position
  baseExamples,  \* the base_examples table, a set of rows
  courseEnrollments,  \* the course_enrollments table, a set of rows
  awaiting       \* the calls of createBaseExample, deleteBaseExample and
                 \* enrollInCourse that await their write, a bag of [op, arg]

vars == <<submissions, created, passes, now, faults, last, batch, baseExamples,
          courseEnrollments, awaiting>>

\* the tables of the base examples and of the enrollments, and the calls on them
tables == <<baseExamples, courseEnrollments, awaiting>>

\* what the server actions and the grading passes leave alone
aside == <<batch, tables>>

\* the base_examples rows of the questions that have a base example
BaseExampleRows ==
  {[id |-> "be-" \o questionId, questionId |-> questionId] :
     questionId \in {q \in QuestionIds : Question[q].baseExample}}

\* the course_enrollments rows
EnrollmentRows ==
  {[id |-> "ce-" \o e[1] \o e[2], courseId |-> e[1], studentId |-> e[2]] : e \in Enrollments}

\* the two tables hold the rows of the catalog, and no call is under way
Catalog ==
  /\ baseExamples = BaseExampleRows
  /\ courseEnrollments = EnrollmentRows
  /\ awaiting = EmptyBag

\* no call of batchAssessSubmissions is under way
NoBatch == [pc |-> "none"]

Exists(id) == id \in DOMAIN submissions

One(x) == SetToBag({x})

Scheduled == BagCardinality(passes)

\* a clock reading: time does not go backwards
Clock(t) == t \in now..(IF now < MaxClock THEN now + 1 ELSE now)

Result(op, error) == [op |-> op, error |-> error]

OK == "OK"

ServerActions == {"create", "update", "delete", "reprocess"}

Init ==
  /\ submissions = <<>>
  /\ created = {}
  /\ passes = EmptyBag
  /\ now = 0
  /\ faults = 0
  /\ last = Result("none", OK)
  /\ batch = NoBatch
  /\ Catalog

\* mutant: the call of processSubmission is left out
Schedule_Dropped(id) == passes

\* processSubmission(id) is called and not awaited
Schedule(id) ==
  passes (+) One([sid |-> id, pc |-> "start", result |-> NoResult, content |-> Absent])

\* ---------------------------------------------------------------- createSubmission
\* mutant: the enrollment of the caller is not checked
createSubmissionError_NoEnrollmentCheck(user, questionId, data) ==
  IF user = NoSession THEN "Authentication required"
  ELSE IF ~createSubmissionSchema(data) THEN "ZodError"
  ELSE IF Role[user] # "STUDENT" THEN "Only students can create submissions"
  ELSE IF questionId \notin QuestionIds THEN "Question not found"
  ELSE IF ~Question[questionId].isActive
    THEN "This question is no longer accepting submissions"
  ELSE IF getSubmissionContent(Question[questionId].submissionType, data) = NULL
    THEN "content is required"
  ELSE OK

\* mutant: the isActive flag of the question is not checked
createSubmissionError_NoActiveCheck(user, questionId, data) ==
  IF user = NoSession THEN "Authentication required"
  ELSE IF ~createSubmissionSchema(data) THEN "ZodError"
  ELSE IF Role[user] # "STUDENT" THEN "Only students can create submissions"
  ELSE IF questionId \notin QuestionIds THEN "Question not found"
  ELSE IF <<Question[questionId].courseId, user>> \notin Enrollments
    THEN "You must be enrolled in this course to submit"
  ELSE IF getSubmissionContent(Question[questionId].submissionType, data) = NULL
    THEN "content is required"
  ELSE OK

\* mutant: the isActive flag is checked before the enrollment of the caller
createSubmissionError_ActiveBeforeEnrollment(user, questionId, data) ==
  IF user = NoSession THEN "Authentication required"
  ELSE IF ~createSubmissionSchema(data) THEN "ZodError"
  ELSE IF Role[user] # "STUDENT" THEN "Only students can create submissions"
  ELSE IF questionId \notin QuestionIds THEN "Question not found"
  ELSE IF ~Question[questionId].isActive
    THEN "This question is no longer accepting submissions"
  ELSE IF <<Question[questionId].courseId, user>> \notin Enrollments
    THEN "You must be enrolled in this course to submit"
  ELSE IF getSubmissionContent(Question[questionId].submissionType, data) = NULL
    THEN "content is required"
  ELSE OK

createSubmissionError(user, questionId, data) ==
  IF user = NoSession THEN "Authentication required"
  ELSE IF ~createSubmissionSchema(data) THEN "ZodError"
  ELSE IF Role[user] # "STUDENT" THEN "Only students can create submissions"
  ELSE IF questionId \notin QuestionIds THEN "Question not found"
  ELSE IF <<Question[questionId].courseId, user>> \notin Enrollments
    THEN "You must be enrolled in this course to submit"
  ELSE IF ~Question[questionId].isActive
    THEN "This question is no longer accepting submissions"
  ELSE IF getSubmissionContent(Question[questionId].submissionType, data) = NULL
    THEN "content is required"
  ELSE OK

\* an undefined key of a create is stored as NULL
Column(x) == IF x = Absent THEN NULL ELSE x

NewRow(user, questionId, data, t) ==
  [questionId |-> questionId, studentId |-> user,
   content |-> Column(data.content), fileUrl |-> Column(data.fileUrl),
   websiteUrl |-> Column(data.websiteUrl), githubUrl |-> Column(data.githubUrl),
   status |-> "PENDING", score |-> NULL, feedback |-> NULL, confidence |-> NULL,
   comparisonData |-> NULL, submittedAt |-> t, processedAt |-> NULL]

createSubmission(user, questionId, data) ==
  LET error == createSubmissionError(user, questionId, data)
  IN  /\ last' = Result("create", error)
      /\ IF error = OK
           THEN /\ Scheduled < MaxPasses
                /\ \E id \in SubIds \ created, t \in {s \in 0..MaxClock : Clock(s)} :
                     /\ now' = t
                     /\ submissions' =
                          [i \in DOMAIN submissions \cup {id} |->
                             IF i = id THEN NewRow(user, questionId, data, t)
                             ELSE submissions[i]]
                     /\ created' = created \cup {id}
                     /\ passes' = Schedule(id)
                /\ UNCHANGED faults
           ELSE UNCHANGED <<submissions, created, passes, now, faults>>

\* ---------------------------------------------------------------- updateSubmission
\* mutant: a row that is being processed may be edited
updateSubmissionError_NoProcessingCheck(user, id, data) ==
  IF user = NoSession THEN "Authentication required"
  ELSE IF ~updateSubmissionSchema(data) THEN "ZodError"
  ELSE IF ~Exists(id) THEN "Submission not found"
  ELSE IF submissions[id].studentId # user THEN "You can only update your own submissions"
  ELSE OK

\* mutant: the owner of the row is not looked at
updateSubmissionError_NoOwnerCheck(user, id, data) ==
  IF user = NoSession THEN "Authentication required"
  ELSE IF ~updateSubmissionSchema(data) THEN "ZodError"
  ELSE IF ~Exists(id) THEN "Submission not found"
  ELSE IF submissions[id].status = "PROCESSING"
    THEN "Cannot update submission while it is being processed"
  ELSE OK

updateSubmissionError(user, id, data) ==
  IF user = NoSession THEN "Authentication required"
  ELSE IF ~updateSubmissionSchema(data) THEN "ZodError"
  ELSE IF ~Exists(id) THEN "Submission not found"
  ELSE IF submissions[id].studentId # user THEN "You can only update your own submissions"
  ELSE IF submissions[id].status = "PROCESSING"
    THEN "Cannot update submission while it is being processed"
  ELSE OK

\* prisma update: a key that is undefined keeps the stored column
Assign(x, stored) == IF x = Absent THEN stored ELSE x

\* the content of the question's kind is provided and differs from the stored one
ContentChanged(row, data) ==
  LET submissionType == Question[row.questionId].submissionType
      newContent == getSubmissionContent(submissionType, data)
  IN  newContent # NULL /\ newContent # getSubmissionContent(submissionType, row)

\* mutant: the reset leaves the feedback and the time of processing
ResetAssessment_StatusAndScore(row) ==
  [row EXCEPT !.status = "PENDING", !.score = NULL, !.confidence = NULL,
              !.comparisonData = NULL]

ResetAssessment(row) ==
  [row EXCEPT !.status = "PENDING", !.score = NULL, !.feedback = NULL,
              !.confidence = NULL, !.comparisonData = NULL, !.processedAt = NULL]

UpdatedRow(row, data) ==
  LET written == [row EXCEPT !.content = Assign(data.content, @),
                             !.fileUrl = Assign(data.fileUrl, @),
                             !.websiteUrl = Assign(data.websiteUrl, @),
                             !.githubUrl = Assign(data.githubUrl, @)]
  IN  IF ContentChanged(row, data) THEN ResetAssessment(written) ELSE written

\* if (newContent && submission.status === PENDING) processSubmission(...)
Reprocesses(row, data) ==
  /\ getSubmissionContent(Question[row.questionId].submissionType, data) # NULL
  /\ UpdatedRow(row, data).status = "PENDING"

updateSubmission(user, id, data) ==
  LET error == updateSubmissionError(user, id, data)
  IN  /\ last' = Result("update", error)
      /\ IF error = OK
           THEN /\ submissions' = [submissions EXCEPT ![id] = UpdatedRow(@, data)]
                /\ IF Reprocesses(submissions[id], data)
                     THEN Scheduled < MaxPasses /\ passes' = Schedule(id)
                     ELSE UNCHANGED passes
                /\ UNCHANGED <<created, now, faults>>
           ELSE UNCHANGED <<submissions, created, passes, now, faults>>

\* ---------------------------------------------------------------- deleteSubmission
\* mutant: every course admin may delete, whichever course the row belongs to
canDelete_AnyCourseAdmin(user, row) ==
  \/ row.studentId = user
  \/ Role[user] = "SUPER_ADMIN"
  \/ Role[user] = "COURSE_ADMIN"

canDelete(user, row) ==
  \/ row.studentId = user
  \/ Role[user] = "SUPER_ADMIN"
  \/ (Role[user] = "COURSE_ADMIN" /\ CourseAdmin[Question[row.questionId].courseId] = user)

deleteSubmissionError(user, id) ==
  IF user = NoSession THEN "Authentication required"
  ELSE IF ~Exists(id) THEN "Submission not found"
  ELSE IF ~canDelete(user, submissions[id]) THEN "Insufficient permissions"
  ELSE OK

deleteSubmission(user, id) ==
  LET error == deleteSubmissionError(user, id)
  IN  /\ last' = Result("delete", error)
      /\ IF error = OK
           THEN submissions' = [i \in DOMAIN submissions \ {id} |-> submissions[i]]
           ELSE UNCHANGED submissions
      /\ UNCHANGED <<created, passes, now, faults>>

\* ---------------------------------------------------------------- reprocessSubmission
reprocessSubmissionError(user, id) ==
  IF user = NoSession THEN "Authentication required"
  ELSE IF Role[user] = "STUDENT" THEN "Only admins can reprocess submissions"
  ELSE IF ~Exists(id) THEN "Submission not found"
  ELSE IF Role[user] = "COURSE_ADMIN"
          /\ CourseAdmin[Question[submissions[id].questionId].courseId] # user
    THEN "Insufficient permissions"
  ELSE IF getSubmissionContent(Question[submissions[id].questionId].submissionType,
                               submissions[id]) = NULL
    THEN "No content to process"
  ELSE OK

reprocessSubmission(user, id) ==
  LET error == reprocessSubmissionError(user, id)
  IN  /\ last' = Result("reprocess", error)
      /\ IF error = OK
           THEN /\ Scheduled < MaxPasses
                /\ submissions' = [submissions EXCEPT ![id] = ResetAssessment(@)]
                /\ passes' = Schedule(id)
                /\ UNCHANGED <<created, now, faults>>
           ELSE UNCHANGED <<submissions, created, passes, now, faults>>

\* ---------------------------------------------------------------- AssessmentEngine
extractSubmissionContent(row) ==
  CASE Question[row.questionId].submissionType = "TEXT" -> row.content
    [] Question[row.questionId].submissionType = "WEBSITE" -> row.websiteUrl
    [] Question[row.questionId].submissionType = "GITHUB_REPO" -> row.githubUrl
    [] Question[row.questionId].submissionType = "DOCUMENT" -> row.fileUrl
    [] OTHER -> NULL

\* the catch of assessSubmissionWithBase
EngineFailure(message) ==
  AssessmentResult(0, "Assessment failed: " \o message, 0, "failed")

assessSubmissionWithBase(id, reply) ==
  IF ~Exists(id) THEN EngineFailure("Submission not found")
  ELSE IF ~Question[submissions[id].questionId].baseExample
    THEN EngineFailure("No base example available for this question")
  ELSE IF ~Truthy(extractSubmissionContent(submissions[id]))
    THEN EngineFailure("No content found in submission")
  ELSE assessSubmission(reply)

\* what the pass logs with console.error while it assesses
assessmentLog(id, reply) ==
  IF assessSubmissionWithBase(id, reply).comparisonData = "failed"
    THEN "Assessment engine error"
  ELSE IF assessSubmissionWithBase(id, reply) = FallbackAssessment
    THEN "LLM Assessment Error"
  ELSE OK

StoreErrorFeedback == "Assessment failed: store error"

\* a store write of the dispatcher throws: always when the row is gone, and
\* a bounded number of times for a transient reason
Transient == faults < MaxStoreFaults

ProcessingRow(row) == [row EXCEPT !.status = "PROCESSING"]

CompletedRow(row, result, t) ==
  [row EXCEPT !.status = "COMPLETED", !.score = Val(result.score),
              !.feedback = Val(result.feedback), !.confidence = Val(result.confidence),
              !.comparisonData = Val(result.comparisonData), !.processedAt = Val(t)]

FailedRow(row, t) ==
  [row EXCEPT !.status = "FAILED", !.feedback = Val(StoreErrorFeedback),
              !.processedAt = Val(t)]

\* the pass p goes on as q
Goto(p, pc, result) ==
  (passes (-) One(p)) (+) One([sid |-> p.sid, pc |-> pc, result |-> result, content |-> Absent])

\* the submissionContent that assessSubmissionWithBase read and assessed
Assessed(id) == IF Exists(id) THEN extractSubmissionContent(submissions[id]) ELSE Absent

\* the pass p holds the result of assessing the content it read
Holds(p, result) ==
  (passes (-) One(p))
    (+) One([sid |-> p.sid, pc |-> "store", result |-> result, content |-> Assessed(p.sid)])

Thrown == "throws"

\* processAndStoreAssessment: update status to processing
StartProcessing(p) ==
  /\ p.pc = "start"
  /\ \/ /\ Exists(p.sid)
        /\ submissions' = [submissions EXCEPT ![p.sid] = ProcessingRow(@)]
        /\ passes' = Goto(p, "assess", NoResult)
        /\ last' = Result("processing", OK)
        /\ UNCHANGED faults
     \/ /\ ~Exists(p.sid)
        /\ passes' = Goto(p, "catch", NoResult)
        /\ last' = Result("processing", Thrown)
        /\ UNCHANGED <<submissions, faults>>
     \/ /\ Exists(p.sid) /\ Transient
        /\ faults' = faults + 1
        /\ passes' = Goto(p, "catch", NoResult)
        /\ last' = Result("processing", Thrown)
        /\ UNCHANGED submissions
  /\ UNCHANGED <<created, now>>

\* processAndStoreAssessment: perform assessment
Assess(p) ==
  /\ p.pc = "assess"
  /\ \E reply \in LLMReplies :
       /\ passes' = Holds(p, assessSubmissionWithBase(p.sid, reply))
       /\ last' = Result("assess", assessmentLog(p.sid, reply))
  /\ UNCHANGED <<submissions, created, now, faults>>

\* processAndStoreAssessment: store results in database
StoreResult(p) ==
  /\ p.pc = "store"
  /\ \/ /\ Exists(p.sid)
        /\ \E t \in {s \in 0..MaxClock : Clock(s)} :
             /\ now' = t
             /\ submissions' = [submissions EXCEPT ![p.sid] = CompletedRow(@, p.result, t)]
        /\ passes' = Goto(p, "done", NoResult)
        /\ last' = Result("store", OK)
        /\ UNCHANGED faults
     \/ /\ ~Exists(p.sid)
        /\ passes' = Goto(p, "catch", NoResult)
        /\ last' = Result("store", Thrown)
        /\ UNCHANGED <<submissions, now, faults>>
     \/ /\ Exists(p.sid) /\ Transient
        /\ faults' = faults + 1
        /\ passes' = Goto(p, "catch", NoResult)
        /\ last' = Result("store", Thrown)
        /\ UNCHANGED <<submissions, now>>
  /\ UNCHANGED created

\* processAndStoreAssessment: the catch block marks the row as failed
MarkFailed(p) ==
  /\ p.pc = "catch"
  /\ \/ /\ Exists(p.sid)
        /\ \E t \in {s \in 0..MaxClock : Clock(s)} :
             /\ now' = t
             /\ submissions' = [submissions EXCEPT ![p.sid] = FailedRow(@, t)]
        /\ passes' = Goto(p, "done", NoResult)
        /\ last' = Result("markFailed", OK)
        /\ UNCHANGED faults
     \/ /\ ~Exists(p.sid)
        /\ passes' = Goto(p, "raised", NoResult)
        /\ last' = Result("markFailed", Thrown)
        /\ UNCHANGED <<submissions, now, faults>>
     \/ /\ Exists(p.sid) /\ Transient
        /\ faults' = faults + 1
        /\ passes' = Goto(p, "raised", NoResult)
        /\ last' = Result("markFailed", Thrown)
        /\ UNCHANGED <<submissions, now>>
  /\ UNCHANGED created

\* ---------------------------------------------------------------- specification
\* A failed call changes nothing but the result it returns, so the runs that
\* follow it are the runs that leave the state before it: the result of a
\* failed call is observed and not explored further.
Observing == last.op \in ServerActions => last.error = OK

\* The calls to take among the calls c of a server action, Error(c) being the
\* error c fails with: every call that succeeds, and one call for each error,
\* since the calls that fail with the same error take the same step.
Calls(calls, Error(_)) ==
  {c \in calls : Error(c) = OK}
    \cup {CHOOSE c \in calls : Error(c) = error : error \in {Error(c) : c \in calls} \ {OK}}

createSubmissionFails(c) == createSubmissionError(c[1], c[2], c[3])

CreateSubmissionCalls == Calls(Callers \X QuestionArgs \X Payloads, createSubmissionFails)

CreateSubmissionCall ==
  /\ Observing
  /\ \E c \in CreateSubmissionCalls :
       createSubmission(c[1], c[2], c[3])
  /\ UNCHANGED aside

updateSubmissionFails(c) == updateSubmissionError(c[1], c[2], c[3])

UpdateSubmissionCall ==
  /\ Observing
  /\ \E c \in Calls(Callers \X SubIds \X Payloads, updateSubmissionFails) :
       updateSubmission(c[1], c[2], c[3])
  /\ UNCHANGED aside

deleteSubmissionFails(c) == deleteSubmissionError(c[1], c[2])

DeleteSubmissionCall ==
  /\ Observing
  /\ \E c \in Calls(Callers \X SubIds, deleteSubmissionFails) :
       deleteSubmission(c[1], c[2])
  /\ UNCHANGED aside

reprocessSubmissionFails(c) == reprocessSubmissionError(c[1], c[2])

ReprocessSubmissionCall ==
  /\ Observing
  /\ \E c \in Calls(Callers \X SubIds, reprocessSubmissionFails) :
       reprocessSubmission(c[1], c[2])
  /\ UNCHANGED aside

\* the steps of the detached grading passes
StartProcessingStep ==
  /\ Observing
  /\ \E p \in BagToSet(passes) : StartProcessing(p)
  /\ UNCHANGED aside

AssessStep ==
  /\ Observing
  /\ \E p \in BagToSet(passes) : Assess(p)
  /\ UNCHANGED aside

StoreResultStep ==
  /\ Observing
  /\ \E p \in BagToSet(passes) : StoreResult(p)
  /\ UNCHANGED aside

MarkFailedStep ==
  /\ Observing
  /\ \E p \in BagToSet(passes) : MarkFailed(p)
  /\ UNCHANGED aside

Next ==
  \/ CreateSubmissionCall
  \/ UpdateSubmissionCall
  \/ DeleteSubmissionCall
  \/ ReprocessSubmissionCall
  \/ StartProcessingStep
  \/ AssessStep
  \/ StoreResultStep
  \/ MarkFailedStep

Spec == Init /\ [][Next]_vars

\* ---------------------------------------------------------------- getSubmissions
\* the optional questionId argument: undefined, the empty string, or an id
QuestionFilters == {Absent, Val("")} \cup {Val(q) : q \in QuestionArgs}

hasAccess(user, questionId) ==
  \/ Role[user] = "SUPER_ADMIN"
  \/ (Role[user] = "COURSE_ADMIN" /\ CourseAdmin[Question[questionId].courseId] = user)
  \/ (Role[user] = "STUDENT" /\ <<Question[questionId].courseId, user>> \in Enrollments)

getSubmissionsError(user, questionId) ==
  IF user = NoSession THEN "Authentication required"
  ELSE IF Truthy(questionId) /\ questionId[2] \notin QuestionIds THEN "Question not found"
  ELSE IF Truthy(questionId) /\ ~hasAccess(user, questionId[2]) THEN "Insufficient permissions"
  ELSE OK

\* mutant: the rows are not filtered by the course admin of their course
whereClause_NoCourseFilter(user, questionId, row) ==
  /\ Truthy(questionId) => row.questionId = questionId[2]
  /\ Role[user] = "STUDENT" => row.studentId = user

\* the where clause of findMany: the questionId filter and the filter of the role
whereClause(user, questionId, row) ==
  /\ Truthy(questionId) => row.questionId = questionId[2]
  /\ Role[user] = "STUDENT" => row.studentId = user
  /\ Role[user] = "COURSE_ADMIN" => CourseAdmin[Question[row.questionId].courseId] = user

\* orderBy submittedAt desc: the listings of ids, rows of equal submittedAt in any order
orderBy(ids) ==
  {data \in [1..Cardinality(ids) -> ids] :
     /\ \A i, j \in DOMAIN data : i # j => data[i] # data[j]
     /\ \A i, j \in DOMAIN data :
          i < j => submissions[data[i]].submittedAt >= submissions[data[j]].submittedAt}

findMany(user, questionId) ==
  orderBy({id \in DOMAIN submissions : whereClause(user, questionId, submissions[id])})

\* the ActionResult of getSubmissions, with the call it answers
Listing(user, questionId, error, data) ==
  [op |-> "list", user |-> user, questionId |-> questionId, error |-> error, data |-> data]

getSubmissions(user, questionId) ==
  LET error == getSubmissionsError(user, questionId)
  IN  /\ IF error = OK
           THEN \E data \in findMany(user, questionId) :
                  last' = Listing(user, questionId, OK, data)
           ELSE last' = Listing(user, questionId, error, <<>>)
      /\ UNCHANGED <<submissions, created, passes, now, faults, aside>>

\* the ids of the rows of the stores that getSubmissions is applied to
ListedIds == {"sub1", "sub2"}

\* the stores getSubmissions is applied to: rows as createSubmission inserts them,
\* of any student, for any question, submitted at any time
Stores ==
  UNION {[ids -> {NewRow(user, questionId, Payload(Val("a"), Absent, Absent, Absent), t) :
                    user \in Students, questionId \in QuestionIds, t \in 0..MaxClock}] :
           ids \in SUBSET ListedIds}

InitList ==
  /\ submissions \in Stores
  /\ created = DOMAIN submissions
  /\ passes = EmptyBag
  /\ now = MaxClock
  /\ faults = 0
  /\ last = Listing(NoSession, Absent, "none", <<>>)
  /\ batch = NoBatch
  /\ Catalog

GetSubmissionsCall == \E user \in Callers, questionId \in QuestionFilters : getSubmissions(user, questionId)

NextList == GetSubmissionsCall

SpecList == InitList /\ [][NextList]_vars

\* ---------------------------------------------------------------- auth
Roles == {Role[u] : u \in Users}

\* the allowedRoles arrays
AllowedRoles == UNION {[1..n -> Roles] : n \in 0..MaxAllowed}

\* allowedRoles.includes(role)
includes(allowedRoles, role) == \E i \in DOMAIN allowedRoles : allowedRoles[i] = role

\* what a guard does: it throws an Error with a message, or returns the session user
Guarded(error, user) == [error |-> error, user |-> user]

\* user is what getCurrentUser() returns: session?.user
requireAuth(user) ==
  IF user = NoSession THEN Guarded("Authentication required", NoSession)
  ELSE Guarded(OK, user)

\* mutant: the role of the user is not looked at
requireRole_AnyRole(user, allowedRoles) == requireAuth(user)

requireRole(user, allowedRoles) ==
  IF requireAuth(user).error # OK THEN requireAuth(user)
  ELSE IF ~includes(allowedRoles, Role[user]) THEN Guarded("Insufficient permissions", NoSession)
  ELSE Guarded(OK, user)

requireSuperAdmin(user) == requireRole(user, <<"SUPER_ADMIN">>)

requireAdmin(user) == requireRole(user, <<"SUPER_ADMIN", "COURSE_ADMIN">>)

\* the outcome of a guard, with the call it answers
GuardCall(op, user, allowedRoles, result) ==
  [op |-> op, user |-> user, allowedRoles |-> allowedRoles, error |-> result.error,
   returned |-> result.user]

InitAuth ==
  /\ submissions = <<>>
  /\ created = {}
  /\ passes = EmptyBag
  /\ now = 0
  /\ faults = 0
  /\ last = GuardCall("none", NoSession, <<>>, Guarded(OK, NoSession))
  /\ batch = NoBatch
  /\ Catalog

RequireAuthCall ==
  /\ \E user \in Callers : last' = GuardCall("requireAuth", user, <<>>, requireAuth(user))
  /\ UNCHANGED <<submissions, created, passes, now, faults, aside>>

RequireRoleCall ==
  /\ \E user \in Callers, allowedRoles \in AllowedRoles :
       last' = GuardCall("requireRole", user, allowedRoles, requireRole(user, allowedRoles))
  /\ UNCHANGED <<submissions, created, passes, now, faults, aside>>

RequireSuperAdminCall ==
  /\ \E user \in Callers :
       last' = GuardCall("requireSuperAdmin", user, <<"SUPER_ADMIN">>, requireSuperAdmin(user))
  /\ UNCHANGED <<submissions, created, passes, now, faults, aside>>

RequireAdminCall ==
  /\ \E user \in Callers :
       last' = GuardCall("requireAdmin", user, <<"SUPER_ADMIN", "COURSE_ADMIN">>,
                         requireAdmin(user))
  /\ UNCHANGED <<submissions, created, passes, now, faults, aside>>

NextAuth ==
  \/ RequireAuthCall
  \/ RequireRoleCall
  \/ RequireSuperAdminCall
  \/ RequireAdminCall

SpecAuth == InitAuth /\ [][NextAuth]_vars

\* ---------------------------------------------------------------- middleware
\* A pathname is the sequence of its pieces, "/admin/users" being
\* <<"/", "admin", "/", "users">>, so that startsWith is the prefix test.
Pathnames ==
  { <<"/">>,
    <<"/", "auth">>, <<"/", "auth", "/", "signin">>, <<"/", "auth", "ors">>,
    <<"/", "api", "/", "auth">>, <<"/", "api", "/", "auth", "/", "session">>,
    <<"/", "api", "/", "courses">>,
    <<"/", "_next">>, <<"/", "_next", "/", "static", "/", "x">>,
    <<"/", "_next", "/", "image">>, <<"/", "_next", "/", "data">>,
    <<"/", "favicon", ".ico">>, <<"/", "favicon", ".png">>,
    <<"/", "public", "/", "x">>, <<"/", "public", "ations">>,
    <<"/", "admin">>, <<"/", "admin", "/", "courses">>, <<"/", "admin", "istrator">>,
    <<"/", "admin", "/", "users">>, <<"/", "admin", "/", "users", "/", "x">>,
    <<"/", "admin", "/", "system">>, <<"/", "admin", "/", "system", "s">>,
    <<"/", "courses">>, <<"/", "courses", "/", "x">>, <<"/", "submit">>,
    <<"/", "results">>, <<"/", "dashboard">>, <<"/", "unauthorized">>,
    <<"/", "users">>, <<"/", "system">> }

\* pathname.startsWith(prefix)
startsWith(pathname, prefix) ==
  Len(prefix) <= Len(pathname) /\ SubSeq(pathname, 1, Len(prefix)) = prefix

\* req.nextauth.token: no token, or a token carrying the role of the user
NoToken == "none"

Tokens == Roles \cup {NoToken}

NextResponse_next == [redirect |-> <<>>]

NextResponse_redirect(url) == [redirect |-> url]

\* the public routes, spelled out in the middleware and in the authorized callback
publicRoute(pathname) ==
  \/ startsWith(pathname, <<"/", "auth">>)
  \/ pathname = <<"/">>
  \/ startsWith(pathname, <<"/", "api", "/", "auth">>)
  \/ startsWith(pathname, <<"/", "_next">>)
  \/ startsWith(pathname, <<"/", "favicon">>)

\* mutant: the routes of the super admin are open to every admin
middleware_NoSuperAdminRoutes(token, pathname) ==
  IF token = NoToken
    THEN IF publicRoute(pathname) THEN NextResponse_next
         ELSE NextResponse_redirect(<<"/", "auth", "/", "signin">>)
  ELSE IF startsWith(pathname, <<"/", "admin">>)
          /\ token \notin {"SUPER_ADMIN", "COURSE_ADMIN"}
    THEN NextResponse_redirect(<<"/", "unauthorized">>)
  ELSE NextResponse_next

middleware(token, pathname) ==
  IF token = NoToken
    THEN IF publicRoute(pathname) THEN NextResponse_next
         ELSE NextResponse_redirect(<<"/", "auth", "/", "signin">>)
  ELSE IF startsWith(pathname, <<"/", "admin">>)
          /\ token \notin {"SUPER_ADMIN", "COURSE_ADMIN"}
    THEN NextResponse_redirect(<<"/", "unauthorized">>)
  ELSE IF (\/ startsWith(pathname, <<"/", "admin", "/", "users">>)
           \/ startsWith(pathname, <<"/", "admin", "/", "system">>))
          /\ token # "SUPER_ADMIN"
    THEN NextResponse_redirect(<<"/", "unauthorized">>)
  ELSE NextResponse_next

\* callbacks.authorized
authorized(token, pathname) == publicRoute(pathname) \/ token # NoToken

\* withAuth(middleware, {callbacks}): a request that is not authorized is
\* redirected to the sign-in page of next-auth, the others go to the middleware
withAuth(token, pathname) ==
  IF ~authorized(token, pathname)
    THEN NextResponse_redirect(<<"/", "api", "/", "auth", "/", "signin">>)
  ELSE middleware(token, pathname)

\* config.matcher: '/((?!api/auth|_next/static|_next/image|favicon.ico|public).*)'
matcher(pathname) ==
  /\ pathname[1] = "/"
  /\ \A prefix \in { <<"api", "/", "auth">>, <<"_next", "/", "static">>,
                     <<"_next", "/", "image">>, <<"favicon", ".ico">>, <<"public">> } :
       ~startsWith(Tail(pathname), prefix)

\* what a request gets: the middleware runs on the paths the matcher matches
respond(token, pathname) ==
  IF matcher(pathname) THEN withAuth(token, pathname) ELSE NextResponse_next

Request(token, pathname) ==
  [op |-> "request", token |-> token, pathname |-> pathname,
   response |-> respond(token, pathname)]

InitMiddleware ==
  /\ submissions = <<>>
  /\ created = {}
  /\ passes = EmptyBag
  /\ now = 0
  /\ faults = 0
  /\ last = [op |-> "none", token |-> NoToken, pathname |-> <<"/">>,
             response |-> NextResponse_next]
  /\ batch = NoBatch
  /\ Catalog

RequestStep ==
  /\ \E token \in Tokens, pathname \in Pathnames : last' = Request(token, pathname)
  /\ UNCHANGED <<submissions, created, passes, now, faults, aside>>

NextMiddleware == RequestStep

SpecMiddleware == InitMiddleware /\ [][NextMiddleware]_vars

\* ---------------------------------------------------------------- complexity
SubmissionTypes == {"TEXT", "DOCUMENT", "WEBSITE", "GITHUB_REPO"}

\* contentLength > 1000 for a text, contentLength > 5000 for a document
TextLengthThreshold == 1000

DocumentLengthThreshold == 5000

\* the lengths of a content: none, and those next to the two thresholds
ContentLengths ==
  UNION {(IF n < MaxDelta THEN 1 ELSE n - MaxDelta)..(n + MaxDelta) :
           n \in {0, TextLengthThreshold, DocumentLengthThreshold}}

\* the optional contentLength argument: undefined, or a number
LengthArgs == {Absent, Val(0)} \cup {Val(n) : n \in ContentLengths}

\* contentLength && contentLength > threshold
LongerThan(contentLength, threshold) ==
  IsVal(contentLength) /\ contentLength[2] # 0 /\ contentLength[2] > threshold

\* mutant: a content of exactly the threshold length takes the higher tier
determineComplexity_AtThreshold(submissionType, contentLength) ==
  CASE submissionType = "TEXT" ->
         IF IsVal(contentLength) /\ contentLength[2] >= TextLengthThreshold
           THEN "standard" ELSE "basic"
    [] submissionType = "DOCUMENT" ->
         IF IsVal(contentLength) /\ contentLength[2] >= DocumentLengthThreshold
           THEN "complex" ELSE "standard"
    [] submissionType = "WEBSITE" -> "standard"
    [] submissionType = "GITHUB_REPO" -> "agentic"
    [] OTHER -> "basic"

determineComplexity(submissionType, contentLength) ==
  CASE submissionType = "TEXT" ->
         IF LongerThan(contentLength, TextLengthThreshold) THEN "standard" ELSE "basic"
    [] submissionType = "DOCUMENT" ->
         IF LongerThan(contentLength, DocumentLengthThreshold) THEN "complex" ELSE "standard"
    [] submissionType = "WEBSITE" -> "standard"
    [] submissionType = "GITHUB_REPO" -> "agentic"
    [] OTHER -> "basic"

getModelForComplexity(complexity) ==
  CASE complexity = "basic" -> "llama-3.1-8b-instant"
    [] complexity = "standard" -> "llama-3.1-70b-versatile"
    [] complexity = "complex" -> "llama-3.1-70b-versatile"
    [] complexity = "agentic" -> "llama-3.1-70b-versatile"
    [] OTHER -> "llama-3.1-8b-instant"

\* the complexity argument with which the typed assessment functions
\* (assessTextSubmission, assessDocumentSubmission, ...) call assessSubmission
performTypedAssessment(type, contentLength) ==
  CASE type = "TEXT" -> Val("basic")
    [] type = "DOCUMENT" ->
         Val(IF contentLength > DocumentLengthThreshold THEN "complex" ELSE "standard")
    [] type = "WEBSITE" -> Val("standard")
    [] type = "GITHUB_REPO" -> Val("agentic")
    [] OTHER -> Absent

\* assessSubmission: complexity || determineComplexity(submissionType, length)
selectedComplexity(submissionType, contentLength, complexity) ==
  IF Truthy(complexity) THEN complexity[2]
  ELSE determineComplexity(submissionType, Val(contentLength))

\* what determineComplexity returned, with the call it answers
TierCall(submissionType, contentLength) ==
  [op |-> "determineComplexity", submissionType |-> submissionType,
   contentLength |-> contentLength,
   complexity |-> determineComplexity(submissionType, contentLength)]

\* the routing of an assessment of assessSubmissionWithBase: the complexity it
\* determines and reports in its metrics, and the complexity and the model with
\* which the LLM is called
Routing(submissionType, contentLength) ==
  LET selected == selectedComplexity(submissionType, contentLength,
                                     performTypedAssessment(submissionType, contentLength))
  IN  [op |-> "assessSubmissionWithBase", submissionType |-> submissionType,
       contentLength |-> contentLength,
       complexity |-> determineComplexity(submissionType, Val(contentLength)),
       selectedComplexity |-> selected,
       model |-> getModelForComplexity(selected)]

InitComplexity ==
  /\ submissions = <<>>
  /\ created = {}
  /\ passes = EmptyBag
  /\ now = 0
  /\ faults = 0
  /\ last = [op |-> "none"]
  /\ batch = NoBatch
  /\ Catalog

DetermineComplexityCall ==
  /\ \E submissionType \in SubmissionTypes, contentLength \in LengthArgs :
       last' = TierCall(submissionType, contentLength)
  /\ UNCHANGED <<submissions, created, passes, now, faults, aside>>

\* the content of a submission that is assessed is not empty
RouteAssessment ==
  /\ \E submissionType \in SubmissionTypes, contentLength \in ContentLengths :
       last' = Routing(submissionType, contentLength)
  /\ UNCHANGED <<submissions, created, passes, now, faults, aside>>

NextComplexity ==
  \/ DetermineComplexityCall
  \/ RouteAssessment

SpecComplexity == InitComplexity /\ [][NextComplexity]_vars

\* ---------------------------------------------------------------- batchAssessSubmissions
BatchIds == {"sub1", "sub2"}

\* the arrays of ids of at most MaxIds ids
IdArrays == UNION {[1..n -> BatchIds] : n \in 0..MaxIds}

\* what the promise of an assessment settles with: assessSubmissionWithBase
\* returns the assessment, or the failure result of its catch block
Settlements == {"assessed", "failed"}

batchSize == 3

Min(a, b) == IF a < b THEN a ELSE b

\* submissionIds.slice(i, i + batchSize), as the positions it takes
slice(submissionIds, i) == (i + 1)..Min(i + batchSize, Len(submissionIds))

Pending(promises) == {k \in DOMAIN promises : promises[k] = "pending"}

\* batchResults.forEach(({ id, result }) => { results[id] = result })
forEach(submissionIds, promises, results) ==
  LET ids == {submissionIds[k] : k \in DOMAIN promises}
      Latest(id) == CHOOSE k \in DOMAIN promises :
                      /\ submissionIds[k] = id
                      /\ \A j \in DOMAIN promises : submissionIds[j] = id => j <= k
  IN  [id \in DOMAIN results \cup ids |->
         IF id \in ids THEN promises[Latest(id)] ELSE results[id]]

InitBatch ==
  /\ submissions = <<>>
  /\ created = {}
  /\ passes = EmptyBag
  /\ now = 0
  /\ faults = 0
  /\ last = [op |-> "none"]
  /\ \E submissionIds \in IdArrays :
       batch = [pc |-> "for", submissionIds |-> submissionIds, i |-> 0,
                promises |-> <<>>, results |-> <<>>]
  /\ Catalog

\* batch.map(async (id) => ...): the assessments of the slice all start
Map ==
  /\ batch.pc = "for"
  /\ batch.i < Len(batch.submissionIds)
  /\ batch' = [batch EXCEPT
       !.pc = "Promise.all",
       !.promises = [k \in slice(batch.submissionIds, batch.i) |-> "pending"]]
  /\ last' = [op |-> "map", started |-> slice(batch.submissionIds, batch.i)]
  /\ UNCHANGED <<submissions, created, passes, now, faults, tables>>

\* one assessSubmissionWithBase(id) of the slice returns
Settle ==
  /\ batch.pc = "Promise.all"
  /\ \E k \in Pending(batch.promises), result \in Settlements :
       /\ batch' = [batch EXCEPT !.promises[k] = result]
       /\ last' = [op |-> "settle", position |-> k]
  /\ UNCHANGED <<submissions, created, passes, now, faults, tables>>

\* mutant: the next slice is taken without the pause
PromiseAll_NoPause ==
  /\ batch.pc = "Promise.all"
  /\ Pending(batch.promises) = {}
  /\ batch' = [batch EXCEPT
       !.promises = <<>>,
       !.results = forEach(batch.submissionIds, batch.promises, batch.results),
       !.pc = "for",
       !.i = batch.i + batchSize]
  /\ last' = [op |-> "Promise.all"]
  /\ UNCHANGED <<submissions, created, passes, now, faults, tables>>

\* await Promise.all(batchPromises) resolves, the results are recorded, and the
\* loop pauses when ids remain
PromiseAll ==
  /\ batch.pc = "Promise.all"
  /\ Pending(batch.promises) = {}
  /\ batch' = [batch EXCEPT
       !.promises = <<>>,
       !.results = forEach(batch.submissionIds, batch.promises, batch.results),
       !.pc = IF batch.i + batchSize < Len(batch.submissionIds) THEN "setTimeout" ELSE "for",
       !.i = IF batch.i + batchSize < Len(batch.submissionIds) THEN batch.i
             ELSE batch.i + batchSize]
  /\ last' = [op |-> "Promise.all"]
  /\ UNCHANGED <<submissions, created, passes, now, faults, tables>>

\* the timer of the pause fires: i += batchSize
Timeout ==
  /\ batch.pc = "setTimeout"
  /\ batch' = [batch EXCEPT !.pc = "for", !.i = batch.i + batchSize]
  /\ last' = [op |-> "setTimeout"]
  /\ UNCHANGED <<submissions, created, passes, now, faults, tables>>

\* return results
Return ==
  /\ batch.pc = "for"
  /\ batch.i >= Len(batch.submissionIds)
  /\ batch' = [batch EXCEPT !.pc = "return"]
  /\ last' = [op |-> "return"]
  /\ UNCHANGED <<submissions, created, passes, now, faults, tables>>

NextBatch ==
  \/ Map
  \/ Settle
  \/ PromiseAll
  \/ Timeout
  \/ Return

\* every assessment returns (assessSubmissionWithBase catches what is thrown),
\* and the timer of a pause fires
SpecBatch == InitBatch /\ [][NextBatch]_vars /\ WF_vars(NextBatch)

\* ---------------------------------------------------------------- AssessmentResultManager
CourseIds == DOMAIN CourseAdmin

\* one question of each course
ResultQuestions == {"q1", "q4"}

Optional(values) == {Absent} \cup {Val(v) : v \in values}

\* the filters of getAssessmentResults (minScore, maxScore, dateFrom, dateTo and
\* limit are not given)
Filters ==
  [courseId : Optional(CourseIds), questionId : Optional(ResultQuestions),
   studentId : Optional(Students), status : Optional({"COMPLETED"}),
   offset : Optional({1})]

\* the scope of getAssessmentInsights
Scopes ==
  [courseId : Optional(CourseIds), questionId : Optional(ResultQuestions),
   studentId : Optional(Students)]

\* mutant: the studentId filter replaces the studentId of a student caller
scopeWhereClause_StudentFilterWins(user, filters, row) ==
  /\ Role[user] = "STUDENT" =>
       row.studentId = (IF Truthy(filters.studentId) THEN filters.studentId[2] ELSE user)
  /\ Role[user] = "COURSE_ADMIN" => CourseAdmin[Question[row.questionId].courseId] = user
  /\ Truthy(filters.courseId) => Question[row.questionId].courseId = filters.courseId[2]
  /\ Truthy(filters.questionId) => row.questionId = filters.questionId[2]
  /\ (Truthy(filters.studentId) /\ Role[user] # "STUDENT") =>
       row.studentId = filters.studentId[2]

\* the where clause built from the role and the courseId, questionId and
\* studentId filters, the same in getAssessmentResults and getAssessmentInsights
scopeWhereClause(user, filters, row) ==
  /\ Role[user] = "STUDENT" => row.studentId = user
  /\ Role[user] = "COURSE_ADMIN" => CourseAdmin[Question[row.questionId].courseId] = user
  /\ Truthy(filters.courseId) => Question[row.questionId].courseId = filters.courseId[2]
  /\ Truthy(filters.questionId) => row.questionId = filters.questionId[2]
  /\ (Truthy(filters.studentId) /\ Role[user] # "STUDENT") =>
       row.studentId = filters.studentId[2]

resultsWhereClause(user, filters, row) ==
  /\ scopeWhereClause(user, filters, row)
  /\ Truthy(filters.status) => row.status = filters.status[2]

\* take: limit, skip: offset
page(data, limit, offset) ==
  SubSeq(data, offset + 1, Min(Len(data), offset + limit))

DefaultLimit == 50

\* what getAssessmentResults returns, with the call it answers
Results(user, filters, error, results, total) ==
  [op |-> "results", user |-> user, filters |-> filters, error |-> error,
   results |-> results, total |-> total]

getAssessmentResults(user, filters) ==
  LET where == {id \in DOMAIN submissions : resultsWhereClause(user, filters, submissions[id])}
      offset == IF IsVal(filters.offset) THEN filters.offset[2] ELSE 0
  IN  /\ IF user = NoSession
           THEN last' = Results(user, filters, "Failed to retrieve assessment results", <<>>, 0)
           ELSE \E data \in orderBy(where) :
                  last' = Results(user, filters, OK, page(data, DefaultLimit, offset),
                                  Cardinality(where))
      /\ UNCHANGED <<submissions, created, passes, now, faults, aside>>

RECURSIVE SumOfScores(_)
SumOfScores(ids) ==
  IF ids = {} THEN 0
  ELSE LET id == CHOOSE x \in ids : TRUE
       IN  submissions[id].score[2] + SumOfScores(ids \ {id})

\* Math.round(averageScore * 100) / 100, counted in hundredths
RoundedAverage(sum, n) == (200 * sum + n) \div (2 * n)

\* statusCounts.find(s => s.status === status)?._count.status || 0
statusCounts(where, status) == Cardinality({id \in where : submissions[id].status = status})

OverallPerformance(averageScore, totalSubmissions, completed, pending, failed) ==
  [averageScore |-> averageScore, totalSubmissions |-> totalSubmissions,
   completedAssessments |-> completed, pendingAssessments |-> pending,
   failedAssessments |-> failed]

Insights(user, scope, error, overallPerformance) ==
  [op |-> "insights", user |-> user, scope |-> scope, error |-> error,
   overallPerformance |-> overallPerformance]

getAssessmentInsights(user, scope) ==
  LET where == {id \in DOMAIN submissions : scopeWhereClause(user, scope, submissions[id])}
      completed == {id \in where : /\ submissions[id].status = "COMPLETED"
                                   /\ submissions[id].score # NULL}
  IN  /\ last' =
           IF user = NoSession
             THEN Insights(user, scope, "Failed to generate assessment insights",
                           OverallPerformance(0, 0, 0, 0, 0))
           ELSE IF completed = {}
             THEN Insights(user, scope, OK, OverallPerformance(0, 0, 0, 0, 0))
           ELSE Insights(user, scope, OK,
                  OverallPerformance(
                    RoundedAverage(SumOfScores(completed), Cardinality(completed)),
                    Cardinality(completed),
                    statusCounts(where, "COMPLETED"),
                    statusCounts(where, "PENDING"),
                    statusCounts(where, "FAILED")))
      /\ UNCHANGED <<submissions, created, passes, now, faults, aside>>

\* the rows of the stores: a row as createSubmission inserts it, as a grading
\* pass completes it, and as a grading pass marks it failed
ResultRows ==
  UNION {LET row == NewRow(user, questionId, Payload(Val("a"), Absent, Absent, Absent), 0)
         IN  {row, FailedRow(row, 0)}
                \cup {CompletedRow(row, assessSubmission(reply), 0) : reply \in LLMReplies} :
           user \in Students, questionId \in ResultQuestions}

ResultStores == UNION {[ids -> ResultRows] : ids \in SUBSET ListedIds}

InitResults ==
  /\ submissions \in ResultStores
  /\ created = DOMAIN submissions
  /\ passes = EmptyBag
  /\ now = 0
  /\ faults = 0
  /\ last = [op |-> "none"]
  /\ batch = NoBatch
  /\ Catalog

\* Neither function writes to the store, so the calls that follow a call answer
\* as they do on the store it was given: each answer is observed on its own.
Unasked == last.op = "none"

GetAssessmentResultsCall ==
  /\ Unasked
  /\ \E user \in Callers, filters \in Filters : getAssessmentResults(user, filters)

GetAssessmentInsightsCall ==
  /\ Unasked
  /\ \E user \in Callers, scope \in Scopes : getAssessmentInsights(user, scope)

NextResults ==
  \/ GetAssessmentResultsCall
  \/ GetAssessmentInsightsCall

SpecResults == InitResults /\ [][NextResults]_vars

\* ---------------------------------------------------------------- base examples and enrollments
\* the data of createBaseExample: the question, and a content that may be empty
BaseExampleData == [questionId : QuestionArgs, content : {"", "a"}]

\* course ids a caller may name, one of them unknown to the store
CourseArgs == CourseIds \cup {"c0"}

\* the id of the next row: cuid()
NewId == "id-" \o ToString(Cardinality(created) + 1)

\* base example ids a caller may name, one of them unknown to the store
BaseExampleArgs == {row.id : row \in baseExamples} \cup {"be-0"}

\* a call that passed its checks and awaits its write
Awaiting(op, arg) == [op |-> op, arg |-> arg]

\* what a call returned: the ActionResult, with the call it answers; refused
\* when the call returned before its write
Answer(op, arg, error, refused) == [op |-> op, arg |-> arg, error |-> error, refused |-> refused]

\* A call that is refused changes nothing, so the runs that follow it are the
\* runs that leave the state before it: it is observed and not explored further.
\* The calls that reach their write and the rows inserted are bounded.
Admitted == last.refused = FALSE

Room == Cardinality(created) + BagCardinality(awaiting) < MaxCalls

\* mutant: the table has no unique index on questionId
base_examples_questionId_key_Dropped(questionId) == FALSE

\* CREATE UNIQUE INDEX "base_examples_questionId_key": the insert of a row for
\* the question violates the index
base_examples_questionId_key(questionId) ==
  \E row \in baseExamples : row.questionId = questionId

\* CREATE UNIQUE INDEX "course_enrollments_courseId_studentId_key"
course_enrollments_courseId_studentId_key(courseId, studentId) ==
  \E row \in courseEnrollments : row.courseId = courseId /\ row.studentId = studentId

UniqueConstraintFailed == "Unique constraint failed"

RecordNotFound == "Record to delete does not exist"

createBaseExampleError(user, data) ==
  IF requireAdmin(user).error # OK THEN requireAdmin(user).error
  ELSE IF data.content = "" THEN "Content is required"
  ELSE IF data.questionId \notin QuestionIds THEN "Question not found"
  ELSE IF Role[user] = "COURSE_ADMIN" /\ CourseAdmin[Question[data.questionId].courseId] # user
    THEN "Insufficient permissions"
  ELSE IF \E row \in baseExamples : row.questionId = data.questionId
    THEN "Base example already exists for this question"
  ELSE OK

\* createBaseExample up to its prisma.baseExample.create
createBaseExample(user, data) ==
  LET error == createBaseExampleError(user, data)
  IN  /\ IF error = OK
           THEN /\ Room
                /\ awaiting' = awaiting (+) One(Awaiting("createBaseExample", data.questionId))
                /\ last' = Answer("findUnique", data.questionId, OK, FALSE)
           ELSE /\ last' = Answer("createBaseExample", data.questionId, error, TRUE)
                /\ UNCHANGED awaiting
      /\ UNCHANGED <<submissions, created, passes, now, faults, batch, baseExamples,
                     courseEnrollments>>

\* prisma.baseExample.create and the return, or the catch
baseExample_create(call) ==
  /\ call.op = "createBaseExample"
  /\ awaiting' = awaiting (-) One(call)
  /\ IF base_examples_questionId_key(call.arg)
       THEN /\ last' = Answer("createBaseExample", call.arg, UniqueConstraintFailed, FALSE)
            /\ UNCHANGED <<baseExamples, created>>
       ELSE /\ baseExamples' = baseExamples \cup {[id |-> NewId, questionId |-> call.arg]}
            /\ created' = created \cup {NewId}
            /\ last' = Answer("createBaseExample", call.arg, OK, FALSE)
  /\ UNCHANGED <<submissions, passes, now, faults, batch, courseEnrollments>>

deleteBaseExampleError(user, baseExampleId) ==
  IF requireAdmin(user).error # OK THEN requireAdmin(user).error
  ELSE IF \A row \in baseExamples : row.id # baseExampleId THEN "Base example not found"
  ELSE IF /\ Role[user] = "COURSE_ADMIN"
          /\ \E row \in baseExamples :
               /\ row.id = baseExampleId
               /\ CourseAdmin[Question[row.questionId].courseId] # user
    THEN "Insufficient permissions"
  ELSE OK

\* deleteBaseExample up to its prisma.baseExample.delete
deleteBaseExample(user, baseExampleId) ==
  LET error == deleteBaseExampleError(user, baseExampleId)
  IN  /\ IF error = OK
           THEN /\ Room
                /\ awaiting' = awaiting (+) One(Awaiting("deleteBaseExample", baseExampleId))
                /\ last' = Answer("findUnique", baseExampleId, OK, FALSE)
           ELSE /\ last' = Answer("deleteBaseExample", baseExampleId, error, TRUE)
                /\ UNCHANGED awaiting
      /\ UNCHANGED <<submissions, created, passes, now, faults, batch, baseExamples,
                     courseEnrollments>>

\* prisma.baseExample.delete and the return, or the catch
baseExample_delete(call) ==
  /\ call.op = "deleteBaseExample"
  /\ awaiting' = awaiting (-) One(call)
  /\ IF \E row \in baseExamples : row.id = call.arg
       THEN /\ baseExamples' = {row \in baseExamples : row.id # call.arg}
            /\ last' = Answer("deleteBaseExample", call.arg, OK, FALSE)
       ELSE /\ last' = Answer("deleteBaseExample", call.arg, RecordNotFound, FALSE)
            /\ UNCHANGED baseExamples
  /\ UNCHANGED <<submissions, created, passes, now, faults, batch, courseEnrollments>>

enrollInCourseError(user, courseId) ==
  IF requireAuth(user).error # OK THEN requireAuth(user).error
  ELSE IF Role[user] # "STUDENT" THEN "Only students can enroll in courses"
  ELSE IF courseId \notin CourseIds THEN "Course not found or inactive"
  ELSE IF \E row \in courseEnrollments : row.courseId = courseId /\ row.studentId = user
    THEN "Already enrolled in this course"
  ELSE OK

\* enrollInCourse up to its prisma.courseEnrollment.create
enrollInCourse(user, courseId) ==
  LET error == enrollInCourseError(user, courseId)
  IN  /\ IF error = OK
           THEN /\ Room
                /\ awaiting' = awaiting (+) One(Awaiting("enrollInCourse", <<courseId, user>>))
                /\ last' = Answer("findUnique", <<courseId, user>>, OK, FALSE)
           ELSE /\ last' = Answer("enrollInCourse", <<courseId, user>>, error, TRUE)
                /\ UNCHANGED awaiting
      /\ UNCHANGED <<submissions, created, passes, now, faults, batch, baseExamples,
                     courseEnrollments>>

\* prisma.courseEnrollment.create and the return, or the catch
courseEnrollment_create(call) ==
  /\ call.op = "enrollInCourse"
  /\ awaiting' = awaiting (-) One(call)
  /\ IF course_enrollments_courseId_studentId_key(call.arg[1], call.arg[2])
       THEN /\ last' = Answer("enrollInCourse", call.arg, UniqueConstraintFailed, FALSE)
            /\ UNCHANGED <<courseEnrollments, created>>
       ELSE /\ courseEnrollments' = courseEnrollments \cup
                  {[id |-> NewId, courseId |-> call.arg[1], studentId |-> call.arg[2]]}
            /\ created' = created \cup {NewId}
            /\ last' = Answer("enrollInCourse", call.arg, OK, FALSE)
  /\ UNCHANGED <<submissions, passes, now, faults, batch, baseExamples>>

InitTables ==
  /\ submissions = <<>>
  /\ created = {}
  /\ passes = EmptyBag
  /\ now = 0
  /\ faults = 0
  /\ last = Answer("none", "", OK, FALSE)
  /\ batch = NoBatch
  /\ Catalog

CreateBaseExampleCall ==
  /\ Admitted
  /\ \E user \in Callers, data \in BaseExampleData : createBaseExample(user, data)

CreateBaseExampleWrite ==
  /\ Admitted
  /\ \E call \in BagToSet(awaiting) : baseExample_create(call)

DeleteBaseExampleCall ==
  /\ Admitted
  /\ \E user \in Callers, baseExampleId \in BaseExampleArgs : deleteBaseExample(user, baseExampleId)

DeleteBaseExampleWrite ==
  /\ Admitted
  /\ \E call \in BagToSet(awaiting) : baseExample_delete(call)

EnrollInCourseCall ==
  /\ Admitted
  /\ \E user \in Callers, courseId \in CourseArgs : enrollInCourse(user, courseId)

EnrollInCourseWrite ==
  /\ Admitted
  /\ \E call \in BagToSet(awaiting) : courseEnrollment_create(call)

NextTables ==
  \/ CreateBaseExampleCall
  \/ CreateBaseExampleWrite
  \/ DeleteBaseExampleCall
  \/ DeleteBaseExampleWrite
  \/ EnrollInCourseCall
  \/ EnrollInCourseWrite

SpecTables == InitTables /\ [][NextTables]_vars

\* ---------------------------------------------------------------- error taxonomy
\* the kind of the specification's taxonomy that an error message stands for
ErrorKind(error) ==
  CASE error = "Authentication required" -> "Unauthenticated"
    [] error \in {"ZodError", "content is required"} -> "InvalidInput"
    [] error \in {"Only students can create submissions",
                  "You must be enrolled in this course to submit",
                  "You can only update your own submissions",
                  "Only admins can reprocess submissions",
                  "Insufficient permissions"} -> "Forbidden"
    [] error \in {"Question not found", "Submission not found"} -> "NotFound"
    [] error \in {"This question is no longer accepting submissions",
                  "Cannot update submission while it is being processed",
                  "No content to process"} -> "InvalidState"
    [] OTHER -> "None"

\* the grading fields of a row
Grading(row) ==
  <<row.score, row.feedback, row.confidence, row.comparisonData, row.processedAt>>

Ungraded == <<NULL, NULL, NULL, NULL, NULL>>

\* the calls of createSubmission by a signed-in caller
SignedInCreateCalls ==
  {<<user, questionId, data>> : user \in Users, questionId \in QuestionArgs, data \in Payloads}

\* the same calls by the error (or OK) they end with: the calls that a step of
\* createSubmission with that outcome may be
CreateCallsEndingWith ==
  [error \in {createSubmissionFails(c) : c \in Callers \X QuestionArgs \X Payloads} |->
     {c \in SignedInCreateCalls : createSubmissionFails(c) = error}] @@ <<>>

\* ---------------------------------------------------------------- C1
StatusChanges ==
  {<<"PENDING", "PROCESSING">>, <<"PROCESSING", "COMPLETED">>,
   <<"PROCESSING", "FAILED">>, <<"COMPLETED", "PENDING">>, <<"FAILED", "PENDING">>}

\* C1: every change of a submission's status is one of Pending->Processing,
\* Processing->Completed, Processing->Failed, {Completed, Failed}->Pending, and
\* a new row starts in Pending.
C1_StatusMachine ==
  [][\A id \in SubIds :
       /\ (Exists(id) /\ Exists(id)' /\ submissions[id].status # submissions'[id].status)
            => <<submissions[id].status, submissions'[id].status>> \in StatusChanges
       /\ (~Exists(id) /\ Exists(id)') => submissions'[id].status = "PENDING"]_vars

\* ---------------------------------------------------------------- C2
\* C2: while a row is Processing, neither updateSubmission nor
\* reprocessSubmission changes its status or its grading fields.
C2_ProcessingOnlyLeftByDispatcher ==
  [][\A id \in SubIds :
       (/\ Exists(id)
        /\ submissions[id].status = "PROCESSING"
        /\ last'.op \in {"update", "reprocess"})
         => /\ Exists(id)'
            /\ submissions'[id].status = "PROCESSING"
            /\ Grading(submissions'[id]) = Grading(submissions[id])]_vars

\* ---------------------------------------------------------------- C3
\* the owner calls updateSubmission on a row that is Processing
UpdatesWhileProcessing(user, id, data) ==
  /\ Exists(id)
  /\ submissions[id].studentId = user
  /\ submissions[id].status = "PROCESSING"
  /\ updateSubmission(user, id, data)

\* C3 as stated: updateSubmission by the owner on a Processing row fails with
\* InvalidState, changes no row and schedules no grading.
C3_AlwaysInvalidState ==
  [][last'.op = "update" =>
     \A user \in Users, id \in SubIds, data \in Payloads :
       UpdatesWhileProcessing(user, id, data)
         => /\ ErrorKind(last'.error) = "InvalidState"
            /\ UNCHANGED <<submissions, passes>>]_vars

\* C3 amended: updateSubmission by the owner on a Processing row fails, changes
\* no row and schedules no grading; the failure is InvalidState when the payload
\* fits the update schema, and the validation error otherwise.
C3_UpdateWhileProcessingFails ==
  [][last'.op = "update" =>
     \A user \in Users, id \in SubIds, data \in Payloads :
       UpdatesWhileProcessing(user, id, data)
         => /\ last'.error # OK
            /\ UNCHANGED <<submissions, passes>>
            /\ ErrorKind(last'.error) =
                 (IF updateSubmissionSchema(data) THEN "InvalidState" ELSE "InvalidInput")]_vars

C3_Witness ==
  /\ last = Result("update", "Cannot update submission while it is being processed")
  /\ \E id \in SubIds : Exists(id) /\ submissions[id].status = "PROCESSING"

\* ---------------------------------------------------------------- C4
\* C4: a successful updateSubmission that makes the stored content of the
\* question's kind differ from what it was leaves the row Pending and ungraded
\* and schedules a grading pass.
C4_ContentChangeResets ==
  [][last'.op = "update" =>
     \A user \in Users, id \in SubIds, data \in Payloads :
       (/\ Exists(id)
        /\ updateSubmission(user, id, data)
        /\ last'.error = OK
        /\ extractSubmissionContent(submissions'[id]) # extractSubmissionContent(submissions[id]))
         => /\ submissions'[id].status = "PENDING"
            /\ Grading(submissions'[id]) = Ungraded
            /\ Scheduled' = Scheduled + 1]_vars

\* ---------------------------------------------------------------- C5
\* the pass p takes its last step, on a row that exists
Ends(p) ==
  /\ p \in BagToSet(passes)
  /\ Exists(p.sid)'
  /\ passes' = Goto(p, "done", NoResult)

\* the pass p is about to store the fallback of an LLM call that raised an error
LLMFailed(p) == p.pc = "store" /\ p.result = FallbackAssessment

\* C5: a grading pass whose call of the grading collaborator raised an error
\* ends with the row Failed, score null, processedAt set, and a diagnostic feedback.
C5_LLMErrorEndsFailed ==
  [][last'.op = "store" =>
     \A p \in BagToSet(passes) :
       (LLMFailed(p) /\ Ends(p))
         => /\ submissions'[p.sid].status = "FAILED"
            /\ submissions'[p.sid].score = NULL
            /\ submissions'[p.sid].processedAt # NULL
            /\ submissions'[p.sid].feedback # NULL]_vars

\* ---------------------------------------------------------------- C6
\* the pass p is about to store the assessment of a question without base example
NoBaseExample(p) ==
  /\ p.pc = "store"
  /\ p.result = EngineFailure("No base example available for this question")

\* C6: a grading pass for a question without base example ends with the row
\* Failed, a 'no base example' feedback, and score, confidence, comparison null.
C6_NoBaseExampleEndsFailed ==
  [][last'.op = "store" =>
     \A p \in BagToSet(passes) :
       (NoBaseExample(p) /\ Ends(p))
         => /\ submissions'[p.sid].status = "FAILED"
            /\ submissions'[p.sid].feedback = Val(p.result.feedback)
            /\ submissions'[p.sid].score = NULL
            /\ submissions'[p.sid].confidence = NULL
            /\ submissions'[p.sid].comparisonData = NULL]_vars

\* ---------------------------------------------------------------- C7
\* C7: when a grading pass completes successfully (its write of the results goes
\* through), the row is Completed, score is in [0,100], confidence in [0,1],
\* feedback and comparison are not null and processedAt is set, not earlier than
\* submittedAt.
C7_CompletedRowIsGraded ==
  [][last' = Result("store", OK) =>
     \A p \in BagToSet(passes) :
       (p.pc = "store" /\ Ends(p))
         => /\ submissions'[p.sid].status = "COMPLETED"
            /\ IsVal(submissions'[p.sid].score)
            /\ submissions'[p.sid].score[2] \in 0..100
            /\ IsVal(submissions'[p.sid].confidence)
            /\ submissions'[p.sid].confidence[2] \in 0..ConfScale
            /\ IsVal(submissions'[p.sid].feedback)
            /\ IsVal(submissions'[p.sid].comparisonData)
            /\ IsVal(submissions'[p.sid].processedAt)
            /\ submissions'[p.sid].processedAt[2] >= submissions'[p.sid].submittedAt]_vars

\* a pass has just stored what the LLM answered, after the clock has advanced
C7_Witness ==
  /\ last = Result("store", OK)
  /\ \E id \in SubIds :
       /\ Exists(id)
       /\ submissions[id].status = "COMPLETED"
       /\ submissions[id].score = Val(100)
       /\ submissions[id].processedAt = Val(MaxClock)

\* ---------------------------------------------------------------- C8
ContentFields(row) ==
  [TEXT |-> row.content, DOCUMENT |-> row.fileUrl, WEBSITE |-> row.websiteUrl,
   GITHUB_REPO |-> row.githubUrl]

\* C8: every row has the content field of its question's kind populated and
\* the other three null.
C8_OneContentField ==
  \A id \in DOMAIN submissions :
    \A kind \in DOMAIN ContentFields(submissions[id]) :
      IF kind = Question[submissions[id].questionId].submissionType
        THEN ContentFields(submissions[id])[kind] # NULL
        ELSE ContentFields(submissions[id])[kind] = NULL

\* ---------------------------------------------------------------- C9
NotEnrolled(user, questionId) == <<Question[questionId].courseId, user>> \notin Enrollments

\* C9 as stated: createSubmission by a student without enrollment in the course
\* of the question fails with Forbidden, creates no row and schedules no grading.
C9_AlwaysForbidden ==
  [][last'.op = "create" =>
     \A c \in CreateCallsEndingWith[last'.error] :
       (/\ c[1] \in Students /\ c[2] \in QuestionIds
        /\ NotEnrolled(c[1], c[2])
        /\ createSubmission(c[1], c[2], c[3]))
         => /\ ErrorKind(last'.error) = "Forbidden"
            /\ UNCHANGED <<submissions, created, passes>>]_vars

\* C9 amended: createSubmission by a student without enrollment in the course of
\* the question fails, creates no row and schedules no grading; the failure is
\* Forbidden when the payload fits the create schema, and the validation error
\* otherwise.
C9_NotEnrolledFails ==
  [][last'.op = "create" =>
     \A c \in CreateCallsEndingWith[last'.error] :
       (/\ c[1] \in Students /\ c[2] \in QuestionIds
        /\ NotEnrolled(c[1], c[2])
        /\ createSubmission(c[1], c[2], c[3]))
         => /\ last'.error # OK
            /\ UNCHANGED <<submissions, created, passes>>
            /\ ErrorKind(last'.error) =
                 (IF createSubmissionSchema(c[3]) THEN "Forbidden" ELSE "InvalidInput")]_vars

C9_Witness ==
  /\ last = Result("create", "You must be enrolled in this course to submit")
  /\ \E user \in Students, questionId \in QuestionIds : NotEnrolled(user, questionId)

\* ---------------------------------------------------------------- C10
\* C10 as stated: createSubmission by a student for an inactive question fails
\* with InvalidState, whatever the enrollment of the student, and creates no row.
C10_AlwaysInvalidState ==
  [][last'.op = "create" =>
     \A c \in CreateCallsEndingWith[last'.error] :
       (/\ c[1] \in Students /\ c[2] \in QuestionIds
        /\ ~Question[c[2]].isActive
        /\ createSubmission(c[1], c[2], c[3]))
         => /\ ErrorKind(last'.error) = "InvalidState"
            /\ UNCHANGED <<submissions, created>>]_vars

\* C10 amended: createSubmission by a student for an inactive question fails and
\* creates no row; the failure is InvalidState when the student is enrolled in
\* the course and the payload fits the create schema, Forbidden when the payload
\* fits and the student is not enrolled, and the validation error otherwise.
C10_InactiveQuestionFails ==
  [][last'.op = "create" =>
     \A c \in CreateCallsEndingWith[last'.error] :
       (/\ c[1] \in Students /\ c[2] \in QuestionIds
        /\ ~Question[c[2]].isActive
        /\ createSubmission(c[1], c[2], c[3]))
         => /\ last'.error # OK
            /\ UNCHANGED <<submissions, created>>
            /\ ErrorKind(last'.error) =
                 (IF ~createSubmissionSchema(c[3]) THEN "InvalidInput"
                  ELSE IF NotEnrolled(c[1], c[2]) THEN "Forbidden"
                  ELSE "InvalidState")]_vars

C10_Witness ==
  /\ last = Result("create", "This question is no longer accepting submissions")
  /\ \E questionId \in QuestionIds : ~Question[questionId].isActive

\* ---------------------------------------------------------------- C11
\* the check of createSubmission that an error message comes from
FailedCheck(error) ==
  CASE error = "Authentication required" -> "session"
    [] error = "ZodError" -> "schema"
    [] error = "Only students can create submissions" -> "role"
    [] error = "Question not found" -> "question"
    [] error = "You must be enrolled in this course to submit" -> "enrollment"
    [] error = "This question is no longer accepting submissions" -> "active"
    [] error = "content is required" -> "content"
    [] OTHER -> "none"

\* the error kind each check fails with
CheckKind ==
  [schema |-> "InvalidInput", role |-> "Forbidden", question |-> "NotFound",
   enrollment |-> "Forbidden", active |-> "InvalidState", content |-> "InvalidInput",
   none |-> "None"]

\* the first check that fails, in the order role, question, enrollment, active, content
FirstFailingCheck(user, questionId, data) ==
  IF Role[user] # "STUDENT" THEN "role"
  ELSE IF questionId \notin QuestionIds THEN "question"
  ELSE IF NotEnrolled(user, questionId) THEN "enrollment"
  ELSE IF ~Question[questionId].isActive THEN "active"
  ELSE IF ~Truthy(ContentFields(data)[Question[questionId].submissionType]) THEN "content"
  ELSE "none"

\* C11 as stated: for a signed-in caller createSubmission fails with the error of
\* the first failing check in the order role (Forbidden), question exists
\* (NotFound), enrollment (Forbidden), question active (InvalidState), content
\* present (InvalidInput).
C11_ChecksInOrder ==
  [][last'.op = "create" =>
     \A c \in CreateCallsEndingWith[last'.error] :
       createSubmission(c[1], c[2], c[3])
         => /\ FailedCheck(last'.error) = FirstFailingCheck(c[1], c[2], c[3])
            /\ ErrorKind(last'.error) = CheckKind[FirstFailingCheck(c[1], c[2], c[3])]]_vars

\* C11 amended: for a signed-in caller createSubmission first validates the
\* payload against the create schema (else the validation error, InvalidInput)
\* and then applies the checks role, question exists, enrollment, question
\* active, content present in that order; the first failing check determines
\* the returned error.
C11_SchemaThenChecksInOrder ==
  [][last'.op = "create" =>
     \A c \in CreateCallsEndingWith[last'.error] :
       LET check == IF ~createSubmissionSchema(c[3]) THEN "schema"
                    ELSE FirstFailingCheck(c[1], c[2], c[3])
       IN  \/ /\ FailedCheck(last'.error) = check
              /\ ErrorKind(last'.error) = CheckKind[check]
           \/ ~createSubmission(c[1], c[2], c[3])]_vars

\* the last of the checks has failed, all the checks before it having passed
C11_Witness ==
  /\ last = Result("create", "content is required")
  /\ \E user \in Users, questionId \in QuestionArgs, data \in Payloads :
       FirstFailingCheck(user, questionId, data) = "content"

\* ---------------------------------------------------------------- C12
\* C12: a successful createSubmission inserts exactly one row, Pending and
\* ungraded, leaves the other rows as they are, schedules exactly one grading
\* pass, for the id of the new row, and returns before that pass has taken a
\* step: on return the row is still Pending and ungraded.
C12_CreateSchedulesOnePass ==
  [][last' = Result("create", OK) =>
     \E id \in SubIds :
       /\ ~Exists(id)
       /\ DOMAIN submissions' = DOMAIN submissions \cup {id}
       /\ \A i \in DOMAIN submissions : submissions'[i] = submissions[i]
       /\ submissions'[id].status = "PENDING"
       /\ Grading(submissions'[id]) = Ungraded
       /\ passes' = Schedule(id)
       /\ Scheduled' = Scheduled + 1]_vars

\* createSubmission has just returned the new row, its pass not yet started
C12_Witness ==
  /\ last = Result("create", OK)
  /\ \E id \in SubIds :
       /\ Exists(id)
       /\ submissions[id].status = "PENDING"
       /\ [sid |-> id, pc |-> "start", result |-> NoResult, content |-> Absent] \in BagToSet(passes)

\* ---------------------------------------------------------------- C13
\* the step is a server action that writes status Pending and null grading
\* fields to the row id, or inserts it
Resets(id) ==
  \/ ~Exists(id) /\ Exists(id)'
  \/ \E user \in Users : reprocessSubmission(user, id) /\ last'.error = OK
  \/ \E user \in Users, data \in Payloads :
       /\ updateSubmission(user, id, data)
       /\ last'.error = OK
       /\ Exists(id)
       /\ ContentChanged(submissions[id], data)

\* C13: a server action schedules a grading pass for a submission only in a step
\* that also resets the row to Pending with null grading fields, so that between
\* two schedulings for one id there is always such a reset.
C13_NoSchedulingWithoutReset ==
  [][last'.op \in ServerActions =>
     \A id \in SubIds : passes' = Schedule(id) => Resets(id)]_vars

\* ---------------------------------------------------------------- C14
\* the owning student, the super admins, and the course admin of the row's course
MayDelete(row) ==
  {row.studentId}
    \cup {u \in Users : Role[u] = "SUPER_ADMIN"}
    \cup {u \in Users : Role[u] = "COURSE_ADMIN"
                          /\ u = CourseAdmin[Question[row.questionId].courseId]}

\* C14: deleteSubmission by a signed-in caller on an existing row removes the
\* row and nothing else when the caller is its owner, a super admin or the
\* admin of its course, and otherwise fails with Forbidden and keeps every row.
C14_DeleteIffPermitted ==
  [][last'.op = "delete" =>
     \A user \in Users, id \in SubIds :
       (Exists(id) /\ deleteSubmission(user, id))
         => IF user \in MayDelete(submissions[id])
              THEN /\ last'.error = OK
                   /\ DOMAIN submissions' = DOMAIN submissions \ {id}
                   /\ \A i \in DOMAIN submissions' : submissions'[i] = submissions[i]
              ELSE /\ ErrorKind(last'.error) = "Forbidden"
                   /\ submissions' = submissions]_vars

\* a row that was there has just been deleted
C14_Witness ==
  /\ last = Result("delete", OK)
  /\ created \ DOMAIN submissions # {}

\* ---------------------------------------------------------------- C15
\* the super admins and the course admin of the row's course
MayReprocess(row) ==
  {u \in Users : Role[u] = "SUPER_ADMIN"}
    \cup {u \in Users : Role[u] = "COURSE_ADMIN"
                          /\ u = CourseAdmin[Question[row.questionId].courseId]}

\* C15: reprocessSubmission on an existing row fails and changes nothing for a
\* student and for a course admin of another course; for a permitted admin it
\* sets the status to Pending and score, feedback, confidence, comparison and
\* processedAt to null, keeps the rest of the row, and schedules one grading pass.
C15_ReprocessResetsAndSchedules ==
  [][last'.op = "reprocess" =>
     \A user \in Users, id \in SubIds :
       (Exists(id) /\ reprocessSubmission(user, id))
         => IF user \in MayReprocess(submissions[id])
              THEN /\ last'.error = OK
                   /\ submissions'[id].status = "PENDING"
                   /\ Grading(submissions'[id]) = Ungraded
                   /\ ContentFields(submissions'[id]) = ContentFields(submissions[id])
                   /\ passes' = Schedule(id)
              ELSE /\ last'.error # OK
                   /\ UNCHANGED <<submissions, passes>>]_vars

\* ---------------------------------------------------------------- C16
\* the rows that match the questionId filter of a call
Matching(questionId) ==
  {id \in DOMAIN submissions : questionId = Absent \/ submissions[id].questionId = questionId[2]}

Listed == {last.data[i] : i \in DOMAIN last.data}

\* C16: whatever the store holds and whatever questionId filter is given, a
\* listing returned to a student holds only rows of that student, a listing
\* returned to a course admin holds only rows of questions whose course that
\* admin administers, and a listing returned to a super admin holds every row
\* that matches the filter.
C16_ListingIsRoleScoped ==
  (last.op = "list" /\ last.error = OK) =>
    /\ Listed \subseteq DOMAIN submissions
    /\ Role[last.user] = "STUDENT" =>
         \A id \in Listed : submissions[id].studentId = last.user
    /\ Role[last.user] = "COURSE_ADMIN" =>
         \A id \in Listed : CourseAdmin[Question[submissions[id].questionId].courseId] = last.user
    /\ Role[last.user] = "SUPER_ADMIN" => Matching(last.questionId) \subseteq Listed

\* a course admin has listed a store that also holds a row of another admin's course
C16_Witness ==
  /\ last.op = "list" /\ last.error = OK
  /\ Role[last.user] = "COURSE_ADMIN"
  /\ Listed # {}
  /\ \E id \in DOMAIN submissions :
       CourseAdmin[Question[submissions[id].questionId].courseId] # last.user

\* ---------------------------------------------------------------- C17
\* the roles of an allowedRoles array, as a set
AllowedSet == {last.allowedRoles[i] : i \in DOMAIN last.allowedRoles}

\* C17: requireRole(allowed) fails with Unauthenticated when there is no session
\* user, otherwise with Forbidden when the user's role is not in allowed, and
\* otherwise returns the user; requireAdmin does what requireRole does for
\* {SuperAdmin, CourseAdmin} and requireSuperAdmin what it does for {SuperAdmin};
\* none of them touches the store.
C17_RequireRole ==
  /\ last.op \in {"requireRole", "requireAdmin", "requireSuperAdmin"} =>
       /\ last.op = "requireAdmin" => AllowedSet = {"SUPER_ADMIN", "COURSE_ADMIN"}
       /\ last.op = "requireSuperAdmin" => AllowedSet = {"SUPER_ADMIN"}
       /\ IF last.user = NoSession THEN ErrorKind(last.error) = "Unauthenticated"
          ELSE IF Role[last.user] \notin AllowedSet THEN ErrorKind(last.error) = "Forbidden"
          ELSE last.error = OK /\ last.returned = last.user
  /\ last.op \in {"requireAuth", "requireRole", "requireAdmin", "requireSuperAdmin"} =>
       /\ submissions = <<>>
       /\ passes = EmptyBag

\* requireRole has refused a signed-in user whose role is not in a non-empty array
C17_Witness ==
  /\ last.op = "requireRole"
  /\ last.user # NoSession
  /\ Len(last.allowedRoles) = MaxAllowed
  /\ last.error = "Insufficient permissions"

\* ---------------------------------------------------------------- C18
\* C18: no exception escapes: every server action returns an ActionResult, and
\* no grading pass ends by raising out of processAndStoreAssessment.
C18_NoExceptionEscapes ==
  /\ last.op \in ServerActions => last.error # Thrown
  /\ \A p \in BagToSet(passes) : p.pc # "raised"

\* ---------------------------------------------------------------- C19
\* every grading pass that was dispatched has taken its last step
AllPassesEnded == \A p \in BagToSet(passes) : p.pc \in {"done", "raised"}

\* C19: a grading pass that is dispatched runs to completion or failure: once
\* every dispatched pass has taken its last step, a row that has not been
\* deleted is Completed or Failed, so that it stays neither Pending nor
\* Processing when no edit and no reprocess request follows.
C19_PassesEndCompletedOrFailed ==
  AllPassesEnded =>
    \A id \in DOMAIN submissions : submissions[id].status \in {"COMPLETED", "FAILED"}

\* ---------------------------------------------------------------- C20
SignInRoutes == { <<"/", "auth", "/", "signin">>, <<"/", "api", "/", "auth", "/", "signin">> }

UnauthorizedRoute == <<"/", "unauthorized">>

\* the paths that are not protected: /, /auth*, /api/auth*, /_next*, /favicon*
Unprotected(pathname) ==
  \/ pathname = <<"/">>
  \/ \E prefix \in { <<"/", "auth">>, <<"/", "api", "/", "auth">>, <<"/", "_next">>,
                     <<"/", "favicon">> } : startsWith(pathname, prefix)

\* the role of the token may not see the path: /admin* without an admin role,
\* /admin/users* or /admin/system* without the super admin role
RoleMayNotSee(token, pathname) ==
  \/ startsWith(pathname, <<"/", "admin">>) /\ token \notin {"SUPER_ADMIN", "COURSE_ADMIN"}
  \/ /\ \E prefix \in { <<"/", "admin", "/", "users">>, <<"/", "admin", "/", "system">> } :
          startsWith(pathname, prefix)
     /\ token # "SUPER_ADMIN"

\* C20 as stated: a request without token for a path other than /, /auth*,
\* /api/auth*, /_next*, /favicon* is sent to the sign-in route; a request with a
\* token is sent to the unauthorized route when its role may not see the path,
\* and passes otherwise.
C20_MiddlewareAsStated ==
  last.op = "request" =>
    IF last.token = NoToken
      THEN ~Unprotected(last.pathname) => last.response.redirect \in SignInRoutes
      ELSE IF RoleMayNotSee(last.token, last.pathname)
             THEN last.response.redirect = UnauthorizedRoute
             ELSE last.response = NextResponse_next

\* C20 amended: a request without token for a path other than /, /auth*,
\* /api/auth*, /_next*, /favicon* and /public* is sent to the sign-in route (the
\* paths beginning with /public are left out by the matcher and pass); a request
\* with a token is sent to the unauthorized route when its role may not see the
\* path, and passes otherwise.
C20_MiddlewareProtects ==
  last.op = "request" =>
    IF last.token = NoToken
      THEN (~Unprotected(last.pathname) /\ ~startsWith(last.pathname, <<"/", "public">>))
             => last.response.redirect \in SignInRoutes
      ELSE IF RoleMayNotSee(last.token, last.pathname)
             THEN last.response.redirect = UnauthorizedRoute
             ELSE last.response = NextResponse_next

\* a course admin has asked for a page under /admin/users and was turned away
C20_Witness ==
  /\ last.op = "request"
  /\ last.token = "COURSE_ADMIN"
  /\ startsWith(last.pathname, <<"/", "admin", "/", "users">>)
  /\ last.response.redirect = UnauthorizedRoute

\* ---------------------------------------------------------------- C21
\* the length of the content, a missing length counting as 0
LengthOf(contentLength) == IF IsVal(contentLength) THEN contentLength[2] ELSE 0

C22_CalledWithDeterminedTier ==
  last.op = "assessSubmissionWithBase" =>
    /\ last.selectedComplexity =
         determineComplexity(last.submissionType, Val(last.contentLength))
    /\ last.model =
         getModelForComplexity(determineComplexity(last.submissionType, Val(last.contentLength)))

\* ---------------------------------------------------------------- C23
\* the positions of the input whose assessment has started and not returned
InFlight == IF batch.pc = "Promise.all" THEN Pending(batch.promises) ELSE {}

\* the positions of the input whose assessment has returned
Finished ==
  IF batch.pc = "Promise.all" THEN 1..batch.i \cup (DOMAIN batch.promises \ Pending(batch.promises))
  ELSE IF batch.pc = "setTimeout" THEN 1..Min(batch.i + 3, Len(batch.submissionIds))
  ELSE 1..Min(batch.i, Len(batch.submissionIds))

\* the assessments that start in a step are the next three ids of the input (or
\* the ids left), after every earlier one has returned and, but for the first
\* group, right after the pause
StartsInGroups ==
  /\ InFlight' \ InFlight # {} =>
       /\ InFlight = {}
       /\ \E g \in 0..MaxIds :
            /\ InFlight' = {k \in 1..Len(batch.submissionIds) : 3 * g < k /\ k <= 3 * g + 3}
            /\ Finished = 1..(3 * g)
            /\ g > 0 => last.op = "setTimeout"
  /\ batch'.pc = "setTimeout" => Finished' # 1..Len(batch.submissionIds)

\* C23: batchAssessSubmissions(ids) assesses the ids in consecutive groups of 3
\* in input order: at most 3 assessments are in flight, a group starts only when
\* every member of the previous group has returned and the pause has elapsed, no
\* pause follows the last group, and the call returns with a result for every
\* id of the input.
C23_BatchesOfThree ==
  /\ [](Cardinality(InFlight) <= 3)
  /\ [][StartsInGroups]_vars
  /\ [](batch.pc = "return" =>
          DOMAIN batch.results = {batch.submissionIds[k] : k \in 1..Len(batch.submissionIds)})
  /\ <>(batch.pc = "return")

\* a call with two ids in more than two groups has returned
C23_Witness ==
  /\ batch.pc = "return"
  /\ Len(batch.submissionIds) > 6
  /\ DOMAIN batch.results = BatchIds
  /\ \E id \in BatchIds : batch.results[id] = "failed"

\* ---------------------------------------------------------------- C24
\* the rows the role of a user lets the user see: as in getSubmissions, the own
\* rows of a student, the rows of the courses of a course admin, every row
RoleScope(user) ==
  {id \in DOMAIN submissions :
     /\ Role[user] = "STUDENT" => submissions[id].studentId = user
     /\ Role[user] = "COURSE_ADMIN" =>
          CourseAdmin[Question[submissions[id].questionId].courseId] = user}

\* the rows that match the courseId, questionId and studentId given
Filtered(filters) ==
  {id \in DOMAIN submissions :
     /\ filters.courseId # Absent =>
          Question[submissions[id].questionId].courseId = filters.courseId[2]
     /\ filters.questionId # Absent => submissions[id].questionId = filters.questionId[2]
     /\ filters.studentId # Absent => submissions[id].studentId = filters.studentId[2]}

ResultIds == {last.results[i] : i \in DOMAIN last.results}

\* C24: getAssessmentResults is scoped by the role of the caller as
\* getSubmissions is, whatever filters are given: a student gets only own rows,
\* also when the studentId filter names another student, a course admin gets
\* only rows of courses that admin administers, also when the courseId or the
\* questionId filter names a course of another admin, and a super admin is not
\* restricted.
C24_ResultsAreRoleScoped ==
  (last.op = "results" /\ last.error = OK) =>
    /\ ResultIds \subseteq RoleScope(last.user)
    /\ Role[last.user] = "SUPER_ADMIN" =>
         last.total = Cardinality({id \in Filtered(last.filters) :
                                     last.filters.status # Absent =>
                                       submissions[id].status = last.filters.status[2]})
    /\ Role[last.user] = "STUDENT" =>
         last.total = Cardinality({id \in RoleScope(last.user) \cap
                                     Filtered([last.filters EXCEPT !.studentId = Absent]) :
                                     last.filters.status # Absent =>
                                       submissions[id].status = last.filters.status[2]})
    /\ Role[last.user] = "COURSE_ADMIN" =>
         last.total = Cardinality({id \in RoleScope(last.user) \cap Filtered(last.filters) :
                                     last.filters.status # Absent =>
                                       submissions[id].status = last.filters.status[2]})

\* a student has asked for the rows of another student, who has one, and got the
\* own row
C24_Witness ==
  /\ last.op = "results" /\ last.error = OK
  /\ Role[last.user] = "STUDENT"
  /\ last.filters.studentId \notin {Absent, Val(last.user)}
  /\ \E id \in DOMAIN submissions : submissions[id].studentId = last.filters.studentId[2]
  /\ ResultIds # {}

\* ---------------------------------------------------------------- C25
\* the rows in the scope of a call of getAssessmentInsights
InScope ==
  RoleScope(last.user) \cap
    Filtered(IF Role[last.user] = "STUDENT" THEN [last.scope EXCEPT !.studentId = Absent]
             ELSE last.scope)

InScopeWith(status) == {id \in InScope : submissions[id].status = status}

\* C25: the counts per status that getAssessmentInsights reports are the numbers
\* of rows in scope that are Completed, Pending and Failed, and the average
\* score it reports is the average, to the hundredth, of the scores of the
\* Completed rows in scope.
C25_InsightsCountTheScope ==
  (last.op = "insights" /\ last.error = OK) =>
    /\ last.overallPerformance.completedAssessments = Cardinality(InScopeWith("COMPLETED"))
    /\ last.overallPerformance.pendingAssessments = Cardinality(InScopeWith("PENDING"))
    /\ last.overallPerformance.failedAssessments = Cardinality(InScopeWith("FAILED"))
    /\ InScopeWith("COMPLETED") # {} =>
         last.overallPerformance.averageScore * Cardinality(InScopeWith("COMPLETED"))
           = 100 * SumOfScores(InScopeWith("COMPLETED"))

\* ---------------------------------------------------------------- C26
\* no two base examples of one question, no two enrollments of one student in
\* one course
OnePerKey ==
  /\ \A a, b \in baseExamples : a.questionId = b.questionId => a = b
  /\ \A a, b \in courseEnrollments :
       (a.courseId = b.courseId /\ a.studentId = b.studentId) => a = b

\* a createBaseExample that returns when the question has a base example, and an
\* enrollInCourse that returns when the student is enrolled in the course, fail;
\* a call that fails leaves both tables as they are
DuplicatesFail ==
  /\ (/\ last'.op = "createBaseExample"
      /\ \E row \in baseExamples : row.questionId = last'.arg) => last'.error # OK
  /\ (/\ last'.op = "enrollInCourse"
      /\ \E row \in courseEnrollments :
           row.courseId = last'.arg[1] /\ row.studentId = last'.arg[2]) => last'.error # OK
  /\ (last'.op \in {"createBaseExample", "deleteBaseExample", "enrollInCourse"}
        /\ last'.error # OK) => UNCHANGED <<baseExamples, courseEnrollments>>

\* C26: whatever calls of createBaseExample, deleteBaseExample and enrollInCourse
\* are made and however they interleave, a question has at most one base example
\* and a student at most one enrollment in a course; a createBaseExample for a
\* question that has a base example and an enrollInCourse of a student who is
\* enrolled fail and leave the tables unchanged.
C26_OneBaseExampleOneEnrollment ==
  /\ []OnePerKey
  /\ [][DuplicatesFail]_vars

\* of two concurrent createBaseExample for the question without a base example,
\* one has inserted its row and the other has failed on the unique index
C26_Witness ==
  /\ last.op = "createBaseExample"
  /\ last.error = UniqueConstraintFailed
  /\ \E row \in baseExamples : row.questionId = last.arg /\ row.id \in created

\* ---------------------------------------------------------------- C27
\* the pass p stores the assessment it holds, and the row becomes Completed
Completes(p) ==
  /\ p.pc = "store"
  /\ Exists(p.sid)
  /\ passes' = Goto(p, "done", NoResult)
  /\ last' = Result("store", OK)

\* the assessment that p holds was made by the LLM service from a content
FromContent(p) == p.result.comparisonData # "failed"

\* C27: a Completed row carries the assessment of the content that it stores:
\* when a pass writes Completed, the content it assessed is the content of the
\* row, also when calls of updateSubmission and reprocessSubmission come
\* between the steps of the passes.
C27_GradeOfStoredContent ==
  [][\A p \in BagToSet(passes) :
       (Completes(p) /\ FromContent(p)) =>
         p.content = extractSubmissionContent(submissions'[p.sid])]_vars

\* ---------------------------------------------------------------- C28
GradingFields == {"score", "feedback", "confidence", "comparisonData", "processedAt"}

NothingNew(row, data) ==
  LET kind == Question[row.questionId].submissionType
  IN  \/ ContentFields(data)[kind] = Absent
      \/ ContentFields(data)[kind] = ContentFields(row)[kind]

\* C29: an updateSubmission that succeeds with a payload that carries no content
\* value for the kind of the question, or the stored value, leaves the status
\* and the grading fields of the row unchanged and schedules no grading pass,
\* whatever the status of the row (Pending, Completed or Failed).
C29_UpdateWithoutNewContent ==
  [][last' = Result("update", OK) =>
     \A id \in DOMAIN submissions :
       \A user \in {submissions[id].studentId}, data \in Payloads :
         (NothingNew(submissions[id], data) /\ updateSubmission(user, id, data))
           => /\ submissions'[id].status = submissions[id].status
              /\ Grading(submissions'[id]) = Grading(submissions[id])
              /\ passes' = passes]_vars

\* ---------------------------------------------------------------- C30
\* C30: a createSubmission, updateSubmission, deleteSubmission or
\* reprocessSubmission that returns success: false leaves every row as it is and
\* schedules no grading pass; an updateSubmission by anyone but the student who
\* owns the row is such a call, and changes no field of it.
C30_FailedCallsChangeNothing ==
  [][last'.op \in ServerActions =>
       /\ last'.error # OK => (submissions' = submissions /\ passes' = passes)
       /\ last'.op = "update" =>
            \A id \in DOMAIN submissions :
              \A user \in Callers \ {submissions[id].studentId}, data \in Payloads :
                updateSubmission(user, id, data) =>
                  (last'.error # OK /\ submissions' = submissions /\ passes' = passes)]_vars

\* an updateSubmission by another user than the owner of the row has failed
C30_Witness ==
  /\ last = Result("update", "You can only update your own submissions")
  /\ \E id \in DOMAIN submissions : submissions[id].status = "COMPLETED"

====
